---- MODULE Spec2Model ----
(***************************************************************************)
(* Model of the supply-chain order evaluation of backend/app/autogen.py    *)
(* (the mock evaluator, the cached agent system, the public functions, the *)
(* real agent system's conversation and its response parser) and of the    *)
(* AutoGenManager of autogen-service/main.py.                              *)
(*                                                                         *)
(* Specifications: Spec (mock evaluations one after the other), SpecEval   *)
(* (mock evaluations interleaved), SpecApi (the public functions),         *)
(* SpecThreads (get_agent_system line by line), SpecParse (the parser on   *)
(* its own), SpecTeam and SpecTeamLive (the real conversation), and        *)
(* SpecService (AutoGenManager).                                           *)
(*                                                                         *)
(* Python strings are TLA+ strings; money (Python floats with two exact    *)
(* decimals: 22.50, 25.00, ...) is counted in cents (2250, 2500, ...).     *)
(* The UTC clock is the number of seconds since 2025-01-01T00:00:00.       *)
(***************************************************************************)
EXTENDS Integers, Sequences, FiniteSets, TLC

VARIABLES
    orders,     \* the OrderDetails passed to process_order, in call order
    results,    \* the SupplyChainResult returned by each finished call
    now,        \* datetime.utcnow(), in seconds
    _agent_system,  \* the module global _agent_system
    constructed,    \* number of agent system instances constructed so far
    returned,       \* what each finished get_agent_system call returned
    resets,         \* number of times the global was set back to None
    requests,       \* the order_data passed to process_supply_chain_order
    calledAt,       \* the clock reading of each process_supply_chain_order
    responses,      \* what each process_supply_chain_order call returned
    pc,             \* per thread: the line of get_agent_system it is at
    arg,            \* per thread: the use_mock argument of its call
    epc,            \* per thread: the line of the mock process_order it is at
    locals,         \* per thread: the local variables of its process_order
    heap,           \* the objects allocated by process_order, by identity
    inbox,          \* the messages lists passed to _parse_agent_responses
    parsed,         \* what each _parse_agent_responses call returned or raised
    api_key,        \* os.getenv("OPENAI_API_KEY") of the service process
    config_list,    \* AutoGenManager.config_list
    sessions,       \* AutoGenManager.sessions
    chat_managers,  \* the GroupChatManager objects: their groupchat.messages
    served,         \* the finished AutoGenManager calls
    team_state,     \* where the real process_order and its team are
    stream,         \* the messages team.run_stream has yielded so far
    checks_task     \* whether the team applies the condition to the task

globalVars == <<_agent_system, constructed, returned, resets>>
apiVars == <<requests, calledAt, responses>>
threadVars == <<pc, arg>>
evalVars == <<epc, locals, heap>>
parseVars == <<inbox, parsed>>
serviceVars == <<api_key, config_list, sessions, chat_managers, served>>
teamVars == <<team_state, stream, checks_task>>
laterVars == <<evalVars, parseVars, serviceVars, teamVars>>
baseVars == <<orders, results, now, globalVars, apiVars, threadVars>>
vars == <<baseVars, laterVars>>

-----------------------------------------------------------------------------
(* Bounds of the checked instance. *)

MaxNegQty == 3
MaxQty == 510
MaxNameLen == 3
MaxTime == 1
MaxGlobalOps == 2
MaxThreads == 2
MaxMessages == 4
MaxParseLen == 3
MaxChats == 2

(* Python's None. *)
None == "<None>"

-----------------------------------------------------------------------------
(* String helpers (Python str methods used by the code). *)

Min(a, b) == IF a <= b THEN a ELSE b

\* s.startswith(p)
StartsWith(s, p) == Len(s) >= Len(p) /\ SubSeq(s, 1, Len(p)) = p

\* p in s
Contains(s, p) ==
    \E i \in 1..(Len(s) - Len(p) + 1) : SubSeq(s, i, i + Len(p) - 1) = p

\* s[:n]
Prefix(s, n) == SubSeq(s, 1, Min(n, Len(s)))

LowerToUpper ==
    [c \in {"a", "b", "c", "d", "e", "f", "g", "h", "i", "j", "k", "l", "m",
            "n", "o", "p", "q", "r", "s", "t", "u", "v", "w", "x", "y", "z"} |->
        CASE c = "a" -> "A" [] c = "b" -> "B" [] c = "c" -> "C" [] c = "d" -> "D"
          [] c = "e" -> "E" [] c = "f" -> "F" [] c = "g" -> "G" [] c = "h" -> "H"
          [] c = "i" -> "I" [] c = "j" -> "J" [] c = "k" -> "K" [] c = "l" -> "L"
          [] c = "m" -> "M" [] c = "n" -> "N" [] c = "o" -> "O" [] c = "p" -> "P"
          [] c = "q" -> "Q" [] c = "r" -> "R" [] c = "s" -> "S" [] c = "t" -> "T"
          [] c = "u" -> "U" [] c = "v" -> "V" [] c = "w" -> "W" [] c = "x" -> "X"
          [] c = "y" -> "Y" [] c = "z" -> "Z"]

UpperToLower ==
    [c \in {LowerToUpper[l] : l \in DOMAIN LowerToUpper} |->
        CHOOSE l \in DOMAIN LowerToUpper : LowerToUpper[l] = c]

RECURSIVE Upper(_)
\* s.upper()
Upper(s) ==
    IF s = "" THEN ""
    ELSE LET c == Head(s)
         IN  (IF c \in DOMAIN LowerToUpper THEN LowerToUpper[c] ELSE c)
                 \o Upper(Tail(s))

RECURSIVE Lower(_)
\* s.lower()
Lower(s) ==
    IF s = "" THEN ""
    ELSE LET c == Head(s)
         IN  (IF c \in DOMAIN UpperToLower THEN UpperToLower[c] ELSE c)
                 \o Lower(Tail(s))

RECURSIVE FormatFillRight(_, _, _)
\* format(s, "<fill>><width>"): right-aligned in width, filled on the left
FormatFillRight(s, fill, width) ==
    IF Len(s) >= width THEN s ELSE FormatFillRight(fill \o s, fill, width)

\* datetime.isoformat() of a clock reading below one minute
IsoFormat(t) ==
    "2025-01-01T00:00:" \o FormatFillRight(ToString(t), "0", 2)

-----------------------------------------------------------------------------
(* MockSupplyChainAgentSystem.process_order *)

available_qty == 500
reserved_qty == 100
\* slip: the reserved units are left out of the stock on hand
in_stock_unreserved == available_qty

in_stock == available_qty + reserved_qty

\* slip: strict comparison against the available stock
can_fulfill_strict(order) == order.quantity < (in_stock - reserved_qty)

can_fulfill(order) == order.quantity <= (in_stock - reserved_qty)

\* slip: priority compared without regard to letter case
Shipping_caseless(order) ==
    IF Lower(order.priority) = "urgent"
    THEN [shipping_cost |-> 7500, shipping_method |-> "overnight", lead_time |-> 1]
    ELSE IF Lower(order.priority) = "high"
    THEN [shipping_cost |-> 4500, shipping_method |-> "express", lead_time |-> 2]
    ELSE [shipping_cost |-> 2500, shipping_method |-> "standard", lead_time |-> 5]

\* slip: standard shipping left without a cost
Shipping_free(order) ==
    IF order.priority = "urgent"
    THEN [shipping_cost |-> 7500, shipping_method |-> "overnight", lead_time |-> 1]
    ELSE IF order.priority = "high"
    THEN [shipping_cost |-> 4500, shipping_method |-> "express", lead_time |-> 2]
    ELSE [shipping_cost |-> 0, shipping_method |-> "standard", lead_time |-> 5]

\* shipping_cost, shipping_method and lead_time chosen by priority
Shipping(order) ==
    IF order.priority = "urgent"
    THEN [shipping_cost |-> 7500, shipping_method |-> "overnight", lead_time |-> 1]
    ELSE IF order.priority = "high"
    THEN [shipping_cost |-> 4500, shipping_method |-> "express", lead_time |-> 2]
    ELSE [shipping_cost |-> 2500, shipping_method |-> "standard", lead_time |-> 5]

\* slip: tier thresholds exclusive
base_price_exclusive(order) ==
    IF order.quantity > 100 THEN 2250
    ELSE IF order.quantity > 50 THEN 2500
    ELSE IF order.quantity > 10 THEN 2750
    ELSE 3000

\* slip: the prices of the two highest tiers exchanged
base_price_swapped(order) ==
    IF order.quantity >= 100 THEN 2500
    ELSE IF order.quantity >= 50 THEN 2250
    ELSE IF order.quantity >= 10 THEN 2750
    ELSE 3000

\* unit price by quantity (volume discount)
base_price(order) ==
    IF order.quantity >= 100 THEN 2250
    ELSE IF order.quantity >= 50 THEN 2500
    ELSE IF order.quantity >= 10 THEN 2750
    ELSE 3000

status(order) == IF can_fulfill(order) THEN "CONFIRMED" ELSE "PENDING"

InsufficientStockText ==
    "Insufficient stock. Consider reducing order quantity to "
        \o ToString(in_stock - reserved_qty) \o " "
        \o "or placing a backorder."

SplitShipmentsText ==
    "Large urgent orders may require split shipments from multiple warehouses."

\* f"...(${25.00:.2f}/unit)."
VolumePricingText ==
    "Consider increasing order to 50 units for volume pricing ($"
        \o "25.00" \o "/unit)."

\* slip: shortage measured against in_stock instead of the available stock
recommendations_instock(order) ==
    (IF order.quantity > in_stock THEN <<InsufficientStockText>> ELSE <<>>)
    \o (IF order.priority = "urgent" /\ order.quantity > 100
        THEN <<SplitShipmentsText>> ELSE <<>>)
    \o (IF base_price(order) > 2500 THEN <<VolumePricingText>> ELSE <<>>)

\* slip: split shipments recommended from 100 units on
recommendations_split100(order) ==
    (IF ~can_fulfill(order) THEN <<InsufficientStockText>> ELSE <<>>)
    \o (IF order.priority = "urgent" /\ order.quantity >= 100
        THEN <<SplitShipmentsText>> ELSE <<>>)
    \o (IF base_price(order) > 2500 THEN <<VolumePricingText>> ELSE <<>>)

\* slip: volume pricing recommended at the 25.00 tier too
recommendations_price25(order) ==
    (IF ~can_fulfill(order) THEN <<InsufficientStockText>> ELSE <<>>)
    \o (IF order.priority = "urgent" /\ order.quantity > 100
        THEN <<SplitShipmentsText>> ELSE <<>>)
    \o (IF base_price(order) >= 2500 THEN <<VolumePricingText>> ELSE <<>>)

\* slip: the split-shipments check made before the stock check
recommendations_reordered(order) ==
    (IF order.priority = "urgent" /\ order.quantity > 100
        THEN <<SplitShipmentsText>> ELSE <<>>)
    \o (IF ~can_fulfill(order) THEN <<InsufficientStockText>> ELSE <<>>)
    \o (IF base_price(order) > 2500 THEN <<VolumePricingText>> ELSE <<>>)

\* slip: volume pricing recommended whatever the unit price
recommendations_anyprice(order) ==
    (IF ~can_fulfill(order) THEN <<InsufficientStockText>> ELSE <<>>)
    \o (IF order.priority = "urgent" /\ order.quantity > 100
        THEN <<SplitShipmentsText>> ELSE <<>>)
    \o <<VolumePricingText>>

recommendations(order) ==
    (IF ~can_fulfill(order) THEN <<InsufficientStockText>> ELSE <<>>)
    \o (IF order.priority = "urgent" /\ order.quantity > 100
        THEN <<SplitShipmentsText>> ELSE <<>>)
    \o (IF base_price(order) > 2500 THEN <<VolumePricingText>> ELSE <<>>)

\* slip: the width of the format left out
supplier_id_unpadded(order) ==
    "SUP-" \o Upper(Prefix(order.product_name, 3))

\* f"SUP-{order.product_name[:3].upper():0>3}"
supplier_id(order) ==
    "SUP-" \o FormatFillRight(Upper(Prefix(order.product_name, 3)), "0", 3)

supplier_notes(order) ==
    (IF order.priority # "low" THEN "Preferred" ELSE "Standard")
        \o " supplier tier"

\* slip: a digit of the capacity dropped
SupplierResponse_cap100(order) ==
    [available      |-> TRUE,
     supplier_id    |-> supplier_id(order),
     unit_price     |-> base_price(order),
     lead_time_days |-> Shipping(order).lead_time,
     capacity       |-> 100,
     notes          |-> supplier_notes(order)]

SupplierResponse(order) ==
    [available      |-> TRUE,
     supplier_id    |-> supplier_id(order),
     unit_price     |-> base_price(order),
     lead_time_days |-> Shipping(order).lead_time,
     capacity       |-> 1000,
     notes          |-> supplier_notes(order)]

InventoryResponse(t) ==
    [in_stock           |-> in_stock,
     reserved           |-> reserved_qty,
     available          |-> in_stock - reserved_qty,
     reorder_point      |-> 200,
     warehouse_location |-> "WH-EAST-01",
     last_updated       |-> IsoFormat(t)]

LogisticsResponse(order, t) ==
    [carrier            |-> "FastShip Logistics",
     shipping_cost      |-> Shipping(order).shipping_cost,
     estimated_delivery |-> IsoFormat(t),
     tracking_number    |-> None,
     shipping_method    |-> Shipping(order).shipping_method]

\* slip: the destination printed without its default
coordinator_summary_nodefault(order) ==
    "Order " \o order.order_id \o " for " \o ToString(order.quantity) \o "x "
        \o order.product_name \o " "
        \o "has been " \o Lower(status(order)) \o ". "
        \o (IF can_fulfill(order)
            THEN "Stock is available for immediate fulfillment."
            ELSE "Stock shortage requires supplier coordination.") \o " "
        \o "Shipping via " \o Shipping(order).shipping_method \o " to "
        \o order.destination \o "."

coordinator_summary(order) ==
    "Order " \o order.order_id \o " for " \o ToString(order.quantity) \o "x "
        \o order.product_name \o " "
        \o "has been " \o Lower(status(order)) \o ". "
        \o (IF can_fulfill(order)
            THEN "Stock is available for immediate fulfillment."
            ELSE "Stock shortage requires supplier coordination.") \o " "
        \o "Shipping via " \o Shipping(order).shipping_method \o " to "
        \o (IF order.destination # "" THEN order.destination
            ELSE "default destination") \o "."

\* slip: the lead time counted from the clock reading
MockProcessOrder_clocked(order, t) ==
    [order_id            |-> order.order_id,
     status              |-> status(order),
     supplier            |-> [SupplierResponse(order) EXCEPT
                                 !.lead_time_days = @ + t],
     inventory           |-> InventoryResponse(t),
     logistics           |-> LogisticsResponse(order, t),
     coordinator_summary |-> coordinator_summary(order),
     recommendations     |-> recommendations(order),
     timestamp           |-> IsoFormat(t)]

\* the SupplyChainResult returned for order when the clock reads t
MockProcessOrder(order, t) ==
    [order_id            |-> order.order_id,
     status              |-> status(order),
     supplier            |-> SupplierResponse(order),
     inventory           |-> InventoryResponse(t),
     logistics           |-> LogisticsResponse(order, t),
     coordinator_summary |-> coordinator_summary(order),
     recommendations     |-> recommendations(order),
     timestamp           |-> IsoFormat(t)]

-----------------------------------------------------------------------------
(* Inputs. *)

Alphabet == {"a", "Z"}

RECURSIVE NamesUpTo(_)
NamesUpTo(n) ==
    IF n = 0 THEN {""}
    ELSE NamesUpTo(n - 1)
            \cup {s \o c : s \in NamesUpTo(n - 1), c \in Alphabet}

ProductNames == NamesUpTo(MaxNameLen) \cup {"Widget"}

Quantities == (-MaxNegQty)..MaxQty

Priorities == {"low", "normal", "high", "urgent", "URGENT"}

Destinations == {"", "Boston"}

OrderDetails(id, name, qty, prio, dest) ==
    [order_id      |-> id,
     product_name  |-> name,
     quantity      |-> qty,
     priority      |-> prio,
     destination   |-> dest,
     required_date |-> None,
     notes         |-> ""]

\* single calls: every quantity of the range with every priority, under
\* every product name, and under one name with a destination given
SingleOrders ==
    {OrderDetails("ORD-TEST-001", n, q, p, "") :
        n \in ProductNames, q \in Quantities, p \in Priorities}
    \cup {OrderDetails("ORD-TEST-001", "Widget", q, p, d) :
            q \in Quantities, p \in Priorities, d \in Destinations}

\* quantities around the thresholds of the rules, for runs of two calls
PairQuantities ==
    {-MaxNegQty, 0, 9, 10, 49, 50, 99, 100, 101, 500, MaxQty, 1000, 1001}

PairOrders ==
    {OrderDetails("ORD-TEST-001", "Widget", q, p, "") :
        q \in PairQuantities, p \in Priorities}

\* the second call of a run: another order id and a destination given
SecondOrders ==
    {OrderDetails("ORD-TEST-002", "Widget", q, p, "Boston") :
        q \in PairQuantities, p \in Priorities}

-----------------------------------------------------------------------------
(* The global instance and get_agent_system. *)

\* _agent_system = None
NoneSystem == [kind |-> "none", id |-> 0]

Threads == 1..MaxThreads

GlobalInit ==
    /\ _agent_system = NoneSystem
    /\ constructed = 0
    /\ returned = <<>>
    /\ resets = 0

ThreadInit ==
    /\ pc = [t \in Threads |-> "idle"]
    /\ arg = [t \in Threads |-> TRUE]

\* MockSupplyChainAgentSystem() or SupplyChainAgentSystem(): the n-th object
NewSystem(use_mock, n) ==
    [kind |-> IF use_mock THEN "mock" ELSE "real", id |-> n]

\* slip: a cached instance of the other kind is replaced
get_agent_system_bykind(sys, n, use_mock) ==
    IF sys = NoneSystem \/ sys.kind # NewSystem(use_mock, n + 1).kind
    THEN NewSystem(use_mock, n + 1)
    ELSE sys

\* the value of the global after get_agent_system(use_mock), which the call
\* returns, when the global held sys and n instances had been constructed
get_agent_system(sys, n, use_mock) ==
    IF sys = NoneSystem THEN NewSystem(use_mock, n + 1) ELSE sys

\* the entry logged for a finished call
Returned(use_mock, sys, direct) ==
    [use_mock |-> use_mock, system |-> sys, epoch |-> resets,
     direct |-> direct]

-----------------------------------------------------------------------------
(* SupplyChainAgentSystem: the conversation and _parse_agent_responses. *)

\* the participants of the RoundRobinGroupChat, in turn order
AgentNames ==
    <<"SupplierAgent", "InventoryAgent", "LogisticsAgent", "CoordinatorAgent">>

\* the task message of process_order
TaskText(order) ==
    "Process supply chain order:\n\n"
        \o "Order ID: " \o order.order_id \o "\n"
        \o "Product: " \o order.product_name \o "\n"
        \o "Quantity: " \o ToString(order.quantity) \o "\n"
        \o "Priority: " \o order.priority \o "\n"
        \o "Destination: " \o order.destination \o "\n"
        \o "Required Date: "
        \o (IF order.required_date \in {None, ""} THEN "Not specified"
            ELSE order.required_date) \o "\n"
        \o "Notes: " \o (IF order.notes = "" THEN "None" ELSE order.notes)
        \o "\n\n"
        \o "Each agent should provide their assessment. Coordinator should finalize with status and recommendations.\n"
        \o "End with \"COORDINATION_COMPLETE\" when finished."

\* what the language model may answer: replies that do not end the
\* conversation, and replies that mention COORDINATION_COMPLETE
OpenReplies == {"Assessment provided."}

FinalReplies ==
    {"COORDINATION_COMPLETE",
     "Order confirmed. COORDINATION_COMPLETE",
     "Order REJECTED; we recommend an urgent review. COORDINATION_COMPLETE"}

\* the replies of a conversation that the text mention ended at its n-th
\* reply (at n = 0: at the task message, which carries the text itself)
Replies(n) ==
    {r \in [1..n -> OpenReplies \cup FinalReplies] :
        /\ n = 0 \/ r[n] \in FinalReplies
        /\ \A k \in 1..(n - 1) : r[k] \in OpenReplies}

\* the messages list collected from team.run_stream: the task, then the
\* agents' replies in round-robin order
Messages(order, replies) ==
    <<[source |-> "user", content |-> TaskText(order)]>>
    \o [k \in 1..Len(replies) |->
            [source  |-> AgentNames[((k - 1) % Len(AgentNames)) + 1],
             content |-> replies[k]]]

\* slip: the keywords matched without folding the letter case
ParseStep_cased(acc, msg) ==
    IF acc.raised # "" THEN acc
    ELSE IF "source" \notin DOMAIN msg THEN [acc EXCEPT !.raised = "KeyError"]
    ELSE IF msg["source"] # "CoordinatorAgent" THEN acc
    ELSE IF "content" \notin DOMAIN msg THEN [acc EXCEPT !.raised = "KeyError"]
    ELSE IF msg["content"] = None
    THEN [acc EXCEPT !.raised = "AttributeError", !.coordinator_msg = None]
    ELSE [raised          |-> "",
          coordinator_msg |-> msg["content"],
          status          |->
            IF Contains(msg["content"], "CONFIRMED") THEN "CONFIRMED"
            ELSE IF Contains(msg["content"], "REJECTED") THEN "REJECTED"
            ELSE acc.status]

\* one iteration of "for msg in messages"; acc.raised names the exception
\* that ended the loop, if any
ParseStep(acc, msg) ==
    IF acc.raised # "" THEN acc
    ELSE IF "source" \notin DOMAIN msg THEN [acc EXCEPT !.raised = "KeyError"]
    ELSE IF msg["source"] # "CoordinatorAgent" THEN acc
    ELSE IF "content" \notin DOMAIN msg THEN [acc EXCEPT !.raised = "KeyError"]
    ELSE IF msg["content"] = None
    THEN [acc EXCEPT !.raised = "AttributeError", !.coordinator_msg = None]
    ELSE [raised          |-> "",
          coordinator_msg |-> msg["content"],
          status          |->
            IF Contains(Upper(msg["content"]), "CONFIRMED") THEN "CONFIRMED"
            ELSE IF Contains(Upper(msg["content"]), "REJECTED") THEN "REJECTED"
            ELSE acc.status]

RECURSIVE ParseLoop(_, _)
ParseLoop(acc, messages) ==
    IF messages = <<>> THEN acc
    ELSE ParseLoop(ParseStep(acc, Head(messages)), Tail(messages))

\* SupplyChainAgentSystem._parse_agent_responses(order_id, messages) at
\* clock reading t: the result, or [raised |-> the exception]
parse_agent_responses(order_id, messages, t) ==
    LET acc == ParseLoop([raised |-> "", coordinator_msg |-> "",
                          status |-> "PENDING"], messages)
        coordinator_msg == acc.coordinator_msg
    IN  IF acc.raised # "" THEN [raised |-> acc.raised]
        ELSE
        [order_id            |-> order_id,
         status              |-> acc.status,
         supplier            |->
            [available      |-> TRUE,
             supplier_id    |-> "SUP-001",
             unit_price     |-> 2550,
             lead_time_days |-> 3,
             capacity       |-> 1000,
             notes          |-> "Reliable supplier with good track record"],
         inventory           |->
            [in_stock           |-> 500,
             reserved           |-> 100,
             available          |-> 400,
             reorder_point      |-> 200,
             warehouse_location |-> "WH-EAST-01",
             last_updated       |-> IsoFormat(t)],
         logistics           |->
            [carrier            |-> "FastShip Logistics",
             shipping_cost      |-> 4500,
             estimated_delivery |-> IsoFormat(t),
             tracking_number    |-> None,
             shipping_method    |->
                IF Contains(Lower(coordinator_msg), "urgent") THEN "express"
                ELSE "standard"],
         coordinator_summary |->
            IF coordinator_msg # "" THEN coordinator_msg
            ELSE "Order processed through multi-agent coordination",
         recommendations     |->
            IF Contains(Lower(coordinator_msg), "recommend")
            THEN <<"Verify supplier capacity before confirming",
                   "Consider expedited shipping for high priority orders",
                   "Monitor inventory levels for future orders">>
            ELSE <<>>,
         timestamp           |-> IsoFormat(t)]

\* the results SupplyChainAgentSystem.process_order can return for order
RealProcessOrder(order, t) ==
    {parse_agent_responses(order.order_id, Messages(order, r), t) :
        r \in UNION {Replies(n) : n \in 0..MaxMessages}}

\* the results the cached agent system sys can return for order
SystemProcessOrder(sys, order, t) ==
    IF sys.kind = "mock" THEN {MockProcessOrder(order, t)}
    ELSE RealProcessOrder(order, t)

-----------------------------------------------------------------------------
(* process_supply_chain_order *)

\* order_data.get(key, default)
Get(order_data, key, default) ==
    IF key \in DOMAIN order_data THEN order_data[key] ELSE default

\* datetime.strftime('%Y%m%d%H%M%S') of a clock reading below one minute
StrfTime(t) == "20250101" \o "0000" \o FormatFillRight(ToString(t), "0", 2)

\* slip: the generated id formatted to the minute ('%Y%m%d%H%M')
GeneratedOrderId_minute(t) == "ORD-" \o "20250101" \o "0000"

GeneratedOrderId(t) == "ORD-" \o StrfTime(t)

\* slip: the defaults of quantity and priority mistaken
BuildOrder_defaults(order_data, t) ==
    [order_id      |-> Get(order_data, "order_id", GeneratedOrderId(t)),
     product_name  |-> Get(order_data, "product_name", "Unknown Product"),
     quantity      |-> Get(order_data, "quantity", 0),
     priority      |-> Get(order_data, "priority", "low"),
     destination   |-> Get(order_data, "destination", ""),
     required_date |-> Get(order_data, "required_date", None),
     notes         |-> Get(order_data, "notes", "")]

\* OrderDetails(order_id=order_data.get("order_id", ...), ...)
BuildOrder(order_data, t) ==
    [order_id      |-> Get(order_data, "order_id", GeneratedOrderId(t)),
     product_name  |-> Get(order_data, "product_name", "Unknown Product"),
     quantity      |-> Get(order_data, "quantity", 1),
     priority      |-> Get(order_data, "priority", "normal"),
     destination   |-> Get(order_data, "destination", ""),
     required_date |-> Get(order_data, "required_date", None),
     notes         |-> Get(order_data, "notes", "")]

\* the dictionary returned for result (supplier, inventory and logistics are
\* always set by both agent systems)
ResultDict(result) ==
    [order_id  |-> result.order_id,
     status    |-> result.status,
     timestamp |-> result.timestamp,
     supplier  |->
        [available      |-> result.supplier.available,
         supplier_id    |-> result.supplier.supplier_id,
         unit_price     |-> result.supplier.unit_price,
         lead_time_days |-> result.supplier.lead_time_days,
         capacity       |-> result.supplier.capacity,
         notes          |-> result.supplier.notes],
     inventory |->
        [in_stock           |-> result.inventory.in_stock,
         reserved           |-> result.inventory.reserved,
         available          |-> result.inventory.available,
         reorder_point      |-> result.inventory.reorder_point,
         warehouse_location |-> result.inventory.warehouse_location,
         last_updated       |-> result.inventory.last_updated],
     logistics |->
        [carrier            |-> result.logistics.carrier,
         shipping_cost      |-> result.logistics.shipping_cost,
         estimated_delivery |-> result.logistics.estimated_delivery,
         shipping_method    |-> result.logistics.shipping_method],
     coordinator_summary |-> result.coordinator_summary,
     recommendations     |-> result.recommendations]

\* the keys process_supply_chain_order reads, and one it does not
OrderKeys ==
    {"order_id", "product_name", "quantity", "priority", "destination",
     "required_date", "notes"}

SampleData ==
    [order_id      |-> "CUSTOM-ID-123",
     product_name  |-> "Gadget",
     quantity      |-> 600,
     priority      |-> "urgent",
     destination   |-> "Boston",
     required_date |-> "2026-03-01",
     notes         |-> "fragile",
     color         |-> "red"]

\* dictionaries that hold none, one, all but one or all of the keys read,
\* with and without the key that is not read
OrderDatas ==
    {[k \in K |-> SampleData[k]] :
        K \in {J \in SUBSET DOMAIN SampleData :
                Cardinality(J \cap OrderKeys) \in {0, 1, 6, 7}}}

\* dictionaries for runs of two calls
PairDatas ==
    {[k \in K |-> SampleData[k]] : K \in SUBSET {"order_id", "color"}}

-----------------------------------------------------------------------------
(* The values of the variables a specification does not exercise. *)

\* an empty dict
EmptyDict == [k \in {} |-> None]

\* the locals of a process_order call that has not assigned them yet
NoLocals ==
    [can_fulfill     |-> FALSE,
     shipping        |-> [shipping_cost |-> 0, shipping_method |-> "",
                          lead_time |-> 0],
     base_price      |-> 0,
     status          |-> "",
     recommendations |-> 0,
     result          |-> 0]

EvalIdle ==
    /\ epc = [t \in Threads |-> "idle"]
    /\ locals = [t \in Threads |-> NoLocals]
    /\ heap = <<>>

ParseIdle ==
    /\ inbox = <<>>
    /\ parsed = <<>>

ServiceIdle ==
    /\ api_key = None
    /\ config_list = <<>>
    /\ sessions = EmptyDict
    /\ chat_managers = <<>>
    /\ served = <<>>

TeamIdle ==
    /\ team_state = "idle"
    /\ stream = <<>>
    /\ checks_task = FALSE

-----------------------------------------------------------------------------
(* The state machine. *)

Init ==
    /\ orders \in {<<o>> : o \in SingleOrders}
                    \cup {<<o1, o2>> : o1 \in PairOrders, o2 \in SecondOrders}
    /\ results = <<>>
    /\ now = 0
    /\ GlobalInit
    /\ requests = <<>>
    /\ calledAt = <<>>
    /\ responses = <<>>
    /\ ThreadInit
    /\ EvalIdle /\ ParseIdle /\ ServiceIdle /\ TeamIdle

\* await system.process_order(orders[next])
ProcessOrder ==
    /\ Len(results) < Len(orders)
    /\ results' = Append(results, MockProcessOrder(orders[Len(results) + 1], now))
    /\ UNCHANGED <<orders, now, globalVars, apiVars, threadVars>>
    /\ UNCHANGED laterVars

\* the wall clock advances
Tick ==
    /\ now < MaxTime
    /\ now' = now + 1
    /\ UNCHANGED <<orders, results, globalVars, apiVars, threadVars>>
    /\ UNCHANGED laterVars

Next == ProcessOrder \/ Tick

Spec == Init /\ [][Next]_vars

Calls == 1..Len(results)

-----------------------------------------------------------------------------
(* get_agent_system called from several threads: one action per line. *)

\* a thread calls get_agent_system(use_mock)
T_Call(t) ==
    /\ pc[t] = "idle"
    /\ \E use_mock \in BOOLEAN : arg' = [arg EXCEPT ![t] = use_mock]
    /\ pc' = [pc EXCEPT ![t] = "l410"]
    /\ UNCHANGED <<orders, results, now, globalVars, apiVars>>
    /\ UNCHANGED laterVars

\* if _agent_system is None:
T_Check(t) ==
    /\ pc[t] = "l410"
    /\ pc' = [pc EXCEPT ![t] =
                IF _agent_system = NoneSystem THEN "l411" ELSE "l415"]
    /\ UNCHANGED <<orders, results, now, globalVars, apiVars, arg>>
    /\ UNCHANGED laterVars

\* _agent_system = MockSupplyChainAgentSystem() / SupplyChainAgentSystem()
T_Create(t) ==
    /\ pc[t] = "l411"
    /\ _agent_system' = NewSystem(arg[t], constructed + 1)
    /\ constructed' = constructed + 1
    /\ pc' = [pc EXCEPT ![t] = "l415"]
    /\ UNCHANGED <<orders, results, now, returned, resets, apiVars, arg>>
    /\ UNCHANGED laterVars

\* return _agent_system
T_Return(t) ==
    /\ pc[t] = "l415"
    /\ returned' = Append(returned, Returned(arg[t], _agent_system, TRUE))
    /\ pc' = [pc EXCEPT ![t] = "done"]
    /\ UNCHANGED <<orders, results, now, _agent_system, constructed, resets,
                   apiVars, arg>>
    /\ UNCHANGED laterVars

ThreadsInit ==
    /\ orders = <<>>
    /\ results = <<>>
    /\ now = 0
    /\ GlobalInit
    /\ requests = <<>>
    /\ calledAt = <<>>
    /\ responses = <<>>
    /\ ThreadInit
    /\ EvalIdle /\ ParseIdle /\ ServiceIdle /\ TeamIdle

ThreadsNext ==
    \E t \in Threads : T_Call(t) \/ T_Check(t) \/ T_Create(t) \/ T_Return(t)

SpecThreads == ThreadsInit /\ [][ThreadsNext]_vars

-----------------------------------------------------------------------------
(* The public functions, called one after the other. *)

\* the direct calls of get_agent_system and the resets made so far
GlobalOps == Len(SelectSeq(returned, LAMBDA e : e.direct)) + resets

\* get_agent_system(use_mock), called directly
GetAgentSystem(use_mock) ==
    /\ GlobalOps < MaxGlobalOps
    /\ LET sys == get_agent_system(_agent_system, constructed, use_mock)
       IN  /\ _agent_system' = sys
           /\ constructed' = IF sys # _agent_system THEN constructed + 1
                             ELSE constructed
           /\ returned' = Append(returned, Returned(use_mock, sys, TRUE))
    /\ UNCHANGED <<orders, results, now, resets, apiVars, threadVars>>
    /\ UNCHANGED laterVars

\* autogen_module._agent_system = None (the tests' reset_agent_system)
Reset ==
    /\ GlobalOps < MaxGlobalOps
    /\ _agent_system' = NoneSystem
    /\ resets' = resets + 1
    /\ UNCHANGED <<orders, results, now, constructed, returned, apiVars,
                   threadVars>>
    /\ UNCHANGED laterVars

\* slip: the number of the call appended to the order id
ProcessSupplyChainOrder_numbered ==
    /\ Len(responses) < Len(requests)
    /\ LET built == BuildOrder(requests[Len(responses) + 1], now)
           order == [built EXCEPT
                        !.order_id = @ \o "-" \o ToString(Len(responses) + 1)]
           sys   == get_agent_system(_agent_system, constructed, TRUE)
       IN  /\ _agent_system' = sys
           /\ constructed' = IF sys # _agent_system THEN constructed + 1
                             ELSE constructed
           /\ returned' = Append(returned, Returned(TRUE, sys, FALSE))
           /\ orders' = Append(orders, order)
           /\ calledAt' = Append(calledAt, now)
           /\ \E result \in SystemProcessOrder(sys, order, now) :
                /\ results' = Append(results, result)
                /\ responses' = Append(responses, ResultDict(result))
    /\ UNCHANGED <<now, resets, requests, threadVars>>
    /\ UNCHANGED laterVars

\* await process_supply_chain_order(requests[next])
ProcessSupplyChainOrder ==
    /\ Len(responses) < Len(requests)
    /\ LET order == BuildOrder(requests[Len(responses) + 1], now)
           sys   == get_agent_system(_agent_system, constructed, TRUE)
       IN  /\ _agent_system' = sys
           /\ constructed' = IF sys # _agent_system THEN constructed + 1
                             ELSE constructed
           /\ returned' = Append(returned, Returned(TRUE, sys, FALSE))
           /\ orders' = Append(orders, order)
           /\ calledAt' = Append(calledAt, now)
           /\ \E result \in SystemProcessOrder(sys, order, now) :
                /\ results' = Append(results, result)
                /\ responses' = Append(responses, ResultDict(result))
    /\ UNCHANGED <<now, resets, requests, threadVars>>
    /\ UNCHANGED laterVars

ApiInit ==
    /\ orders = <<>>
    /\ results = <<>>
    /\ now = 0
    /\ GlobalInit
    /\ requests \in {<<d>> : d \in OrderDatas}
                        \cup {<<d1, d2>> : d1 \in PairDatas, d2 \in PairDatas}
    /\ calledAt = <<>>
    /\ responses = <<>>
    /\ ThreadInit
    /\ EvalIdle /\ ParseIdle /\ ServiceIdle /\ TeamIdle

ApiNext ==
    \/ \E use_mock \in BOOLEAN : GetAgentSystem(use_mock)
    \/ Reset
    \/ ProcessSupplyChainOrder
    \/ Tick

SpecApi == ApiInit /\ [][ApiNext]_vars

-----------------------------------------------------------------------------
(* MockSupplyChainAgentSystem.process_order run by several callers at once: *)
(* one action per block of the function, each caller with its own locals.  *)
(* Lists and results are objects on the heap, named by their position.     *)

EvalOrders ==
    {OrderDetails("ORD-TEST-001", "Widget", 9, "normal", ""),
     OrderDetails("ORD-TEST-002", "Widget", 50, "high", "Boston"),
     OrderDetails("ORD-TEST-003", "Widget", 101, "urgent", ""),
     OrderDetails("ORD-TEST-004", "Widget", 501, "urgent", "Boston")}

\* can_fulfill = order.quantity <= (in_stock - reserved_qty)
E_Stock(t) ==
    /\ epc[t] = "l319"
    /\ locals' = [locals EXCEPT ![t].can_fulfill = can_fulfill(orders[t])]
    /\ epc' = [epc EXCEPT ![t] = "l328"]
    /\ UNCHANGED <<baseVars, heap, parseVars, serviceVars, teamVars>>

\* shipping_cost, shipping_method, lead_time
E_Shipping(t) ==
    /\ epc[t] = "l328"
    /\ locals' = [locals EXCEPT ![t].shipping = Shipping(orders[t])]
    /\ epc' = [epc EXCEPT ![t] = "l342"]
    /\ UNCHANGED <<baseVars, heap, parseVars, serviceVars, teamVars>>

\* base_price, then status = "CONFIRMED" if can_fulfill else "PENDING"
E_Price(t) ==
    /\ epc[t] = "l342"
    /\ locals' = [locals EXCEPT
                    ![t].base_price = base_price(orders[t]),
                    ![t].status = IF locals[t].can_fulfill THEN "CONFIRMED"
                                  ELSE "PENDING"]
    /\ epc' = [epc EXCEPT ![t] = "l352"]
    /\ UNCHANGED <<baseVars, heap, parseVars, serviceVars, teamVars>>

\* slip: one list kept for all the calls
E_NewList_shared(t) ==
    /\ epc[t] = "l352"
    /\ IF \E i \in DOMAIN heap : heap[i].kind = "list"
       THEN /\ locals' = [locals EXCEPT ![t].recommendations =
                    CHOOSE i \in DOMAIN heap :
                        /\ heap[i].kind = "list"
                        /\ \A j \in 1..(i - 1) : heap[j].kind # "list"]
            /\ heap' = heap
       ELSE /\ heap' = Append(heap, [kind |-> "list", items |-> <<>>])
            /\ locals' = [locals EXCEPT ![t].recommendations = Len(heap) + 1]
    /\ epc' = [epc EXCEPT ![t] = "l353"]
    /\ UNCHANGED <<baseVars, parseVars, serviceVars, teamVars>>

\* recommendations = []
E_NewList(t) ==
    /\ epc[t] = "l352"
    /\ heap' = Append(heap, [kind |-> "list", items |-> <<>>])
    /\ locals' = [locals EXCEPT ![t].recommendations = Len(heap) + 1]
    /\ epc' = [epc EXCEPT ![t] = "l353"]
    /\ UNCHANGED <<baseVars, parseVars, serviceVars, teamVars>>

\* the three conditional recommendations.append(...)
E_Recommend(t) ==
    /\ epc[t] = "l353"
    /\ LET l == locals[t]
           added ==
             (IF ~l.can_fulfill THEN <<InsufficientStockText>> ELSE <<>>)
             \o (IF orders[t].priority = "urgent" /\ orders[t].quantity > 100
                 THEN <<SplitShipmentsText>> ELSE <<>>)
             \o (IF l.base_price > 2500 THEN <<VolumePricingText>> ELSE <<>>)
       IN  heap' = [heap EXCEPT ![l.recommendations].items = @ \o added]
    /\ epc' = [epc EXCEPT ![t] = "l367"]
    /\ UNCHANGED <<baseVars, locals, parseVars, serviceVars, teamVars>>

\* return SupplyChainResult(..., recommendations=recommendations)
E_Return(t) ==
    /\ epc[t] = "l367"
    /\ LET l == locals[t]
           value ==
             [MockProcessOrder(orders[t], now) EXCEPT
                !.status = l.status,
                !.supplier.unit_price = l.base_price,
                !.supplier.lead_time_days = l.shipping.lead_time,
                !.logistics.shipping_cost = l.shipping.shipping_cost,
                !.logistics.shipping_method = l.shipping.shipping_method,
                !.recommendations = l.recommendations]
       IN  /\ heap' = Append(heap, [kind |-> "SupplyChainResult",
                                    value |-> value])
           /\ locals' = [locals EXCEPT ![t].result = Len(heap) + 1]
    /\ epc' = [epc EXCEPT ![t] = "done"]
    /\ UNCHANGED <<baseVars, parseVars, serviceVars, teamVars>>

\* every caller holds the instance get_agent_system(use_mock=True) returned
\* and has called process_order with an order of its own
EvalInit ==
    /\ orders \in [Threads -> EvalOrders]
    /\ results = <<>>
    /\ now = 0
    /\ _agent_system = NewSystem(TRUE, 1)
    /\ constructed = 1
    /\ returned = <<>>
    /\ resets = 0
    /\ requests = <<>>
    /\ calledAt = <<>>
    /\ responses = <<>>
    /\ ThreadInit
    /\ epc = [t \in Threads |-> "l319"]
    /\ locals = [t \in Threads |-> NoLocals]
    /\ heap = <<>>
    /\ ParseIdle /\ ServiceIdle /\ TeamIdle

EvalNext ==
    \/ \E t \in Threads :
            \/ E_Stock(t) \/ E_Shipping(t) \/ E_Price(t)
            \/ E_NewList(t) \/ E_Recommend(t) \/ E_Return(t)
    \/ Tick

SpecEval == EvalInit /\ [][EvalNext]_vars

\* the result object the finished call of t returned, with its
\* recommendations list as the heap holds it now
ResultOf(t) ==
    LET r == heap[locals[t].result].value
    IN  [r EXCEPT !.recommendations = heap[r.recommendations].items]

-----------------------------------------------------------------------------
(* SupplyChainAgentSystem._parse_agent_responses called on its own, as the *)
(* tests do, with message records of any shape.                            *)

ParseContents ==
    {None, "", "Order is CoNfIrMeD", "order rejected",
     "Still reviewing the order", "CONFIRMED, not REJECTED"}

\* message records: from an agent, or without the "source" key
ParseMessages ==
    {[source |-> a, content |-> c] :
        a \in {"SupplierAgent", "CoordinatorAgent"}, c \in ParseContents}
    \cup {[content |-> "Some message"]}

RECURSIVE MessageLists(_)
MessageLists(n) ==
    IF n = 0 THEN {<<>>}
    ELSE MessageLists(n - 1)
            \cup {Append(l, m) : l \in MessageLists(n - 1), m \in ParseMessages}

\* system._parse_agent_responses("ORD-001", inbox[next])
ParseAgentResponses ==
    /\ Len(parsed) < Len(inbox)
    /\ parsed' = Append(parsed,
            parse_agent_responses("ORD-001", inbox[Len(parsed) + 1], now))
    /\ UNCHANGED <<baseVars, inbox, evalVars, serviceVars, teamVars>>

ParseInit ==
    /\ orders = <<>>
    /\ results = <<>>
    /\ now = 0
    /\ GlobalInit
    /\ requests = <<>>
    /\ calledAt = <<>>
    /\ responses = <<>>
    /\ ThreadInit
    /\ inbox \in {<<l>> : l \in MessageLists(MaxParseLen)}
    /\ parsed = <<>>
    /\ EvalIdle /\ ServiceIdle /\ TeamIdle

ParseNext == ParseAgentResponses \/ Tick

SpecParse == ParseInit /\ [][ParseNext]_vars

-----------------------------------------------------------------------------
(* autogen-service: AutoGenManager. *)

\* slip: only an unset key counts as no key
get_config_list_unset(key) ==
    IF key = None THEN <<>>
    ELSE <<[model |-> "gpt-4", api_key |-> key]>>

\* AutoGenManager._get_config_list() when OPENAI_API_KEY is key
get_config_list(key) ==
    IF key \in {None, ""} THEN <<>>
    ELSE <<[model |-> "gpt-4", api_key |-> key]>>

NotConfiguredText ==
    "AutoGen service is not configured with API keys. Please set OPENAI_API_KEY."

\* f"session_{asyncio.get_event_loop().time()}": the loop clock is a float
\* of seconds from an origin of its own, read here off the same clock
GeneratedSessionId(t) == "session_" \o ToString(t) \o ".0"

\* the session_id arguments: none, empty, a caller's own id, and ids of the
\* shape the service generates
SessionIdArgs ==
    {None, "", "alpha"} \cup {GeneratedSessionId(t) : t \in 0..MaxTime}

\* Python truthiness of an Optional[str]
Truthy(x) == x \notin {None, ""}

\* what user_proxy.initiate_chat can do: raise, or run the group chat, which
\* records the message and the agents' replies in groupchat.messages
ChatOutcomes == {"raised", "replied"}

GroupChatMessages(message) ==
    <<[name |-> "user_proxy", content |-> message],
      [name |-> "supply_analyst", content |-> "Analysis complete."]>>

\* the entry logged for a finished call
Served(op, given, ret, raised, initiated, after) ==
    [op |-> op, given |-> given, ret |-> ret, raised |-> raised,
     initiated |-> initiated, before |-> sessions, after |-> after]

\* the early return of chat and analyze_supply_chain
NotConfigured(op, given, session_id) ==
    /\ served' = Append(served,
            Served(op, given,
                   [response        |-> NotConfiguredText,
                    session_id      |-> session_id,
                    agents_involved |-> {},
                    timestamp       |-> IsoFormat(now)],
                   FALSE, FALSE, sessions))
    /\ UNCHANGED <<api_key, config_list, sessions, chat_managers>>

\* the body of chat(message, session_id) past the configuration test
Conversation(op, message, given) ==
    LET known == Truthy(given) /\ given \in DOMAIN sessions
        session_id == IF known \/ Truthy(given) THEN given
                      ELSE GeneratedSessionId(now)
        created == Len(chat_managers) + 1
        chat_manager == IF known THEN sessions[given] ELSE created
        managers == IF known THEN chat_managers
                    ELSE Append(chat_managers, <<>>)
        stored == IF known THEN sessions
                  ELSE [k \in DOMAIN sessions \cup {session_id} |->
                            IF k = session_id THEN created ELSE sessions[k]]
    IN  /\ sessions' = stored
        /\ \E outcome \in ChatOutcomes :
            IF outcome = "raised"
            THEN /\ chat_managers' = managers
                 /\ served' = Append(served,
                        Served(op, given, None, TRUE, TRUE, stored))
            ELSE LET messages == managers[chat_manager]
                                    \o GroupChatMessages(message)
                 IN  /\ chat_managers' =
                            [managers EXCEPT ![chat_manager] = messages]
                     /\ served' = Append(served,
                            Served(op, given,
                                [response        |->
                                    messages[Len(messages)].content,
                                 session_id      |-> session_id,
                                 agents_involved |->
                                    {messages[k].name : k \in DOMAIN messages},
                                 timestamp       |-> IsoFormat(now)],
                                FALSE, TRUE, stored))
        /\ UNCHANGED <<api_key, config_list>>

\* await agent_manager.chat(message, session_id)
Chat ==
    /\ Len(served) < MaxChats
    /\ \E session_id \in SessionIdArgs :
        IF config_list = <<>>
        THEN NotConfigured("chat", session_id,
                           IF Truthy(session_id) THEN session_id ELSE "demo")
        ELSE Conversation("chat", "Hello", session_id)
    /\ UNCHANGED <<baseVars, evalVars, parseVars, teamVars>>

\* await agent_manager.analyze_supply_chain(request)
AnalyzeSupplyChain ==
    /\ Len(served) < MaxChats
    /\ IF config_list = <<>>
       THEN NotConfigured("analyze", None, "analysis_demo")
       ELSE Conversation("analyze",
                         "Please analyze the following supply chain scenario:",
                         None)
    /\ UNCHANGED <<baseVars, evalVars, parseVars, teamVars>>

\* agent_manager = AutoGenManager() at startup, under any environment
ServiceInit ==
    /\ orders = <<>>
    /\ results = <<>>
    /\ now = 0
    /\ GlobalInit
    /\ requests = <<>>
    /\ calledAt = <<>>
    /\ responses = <<>>
    /\ ThreadInit
    /\ api_key \in {None, "", "sk-test"}
    /\ config_list = get_config_list(api_key)
    /\ sessions = EmptyDict
    /\ chat_managers = <<>>
    /\ served = <<>>
    /\ EvalIdle /\ ParseIdle /\ TeamIdle

ServiceNext == Chat \/ AnalyzeSupplyChain \/ Tick

SpecService == ServiceInit /\ [][ServiceNext]_vars

-----------------------------------------------------------------------------
(* SupplyChainAgentSystem.process_order: the team's conversation message   *)
(* by message.  RoundRobinGroupChat lets the participants speak in the     *)
(* order of the list; TextMentionTermination ends the conversation at the  *)
(* first message it is applied to that contains the text.  Whether the     *)
(* team applies it to the task message is the library's choice.            *)

TerminationText == "COORDINATION_COMPLETE"

TeamOrders ==
    {OrderDetails("ORD-TEST-001", "Widget", 100, "normal", "Boston"),
     OrderDetails("ORD-TEST-002", "Widget", 501, "urgent", "")}

\* the participant whose turn it is when the stream holds n messages
NextSpeaker(n) == AgentNames[((n - 1) % Len(AgentNames)) + 1]

\* team.run_stream(task=task) yields the task message
R_Task ==
    /\ team_state = "called"
    /\ LET task == TaskText(orders[1])
       IN  /\ stream' = <<[source |-> "user", content |-> task]>>
           /\ team_state' = IF checks_task /\ Contains(task, TerminationText)
                             THEN "stopped" ELSE "running"
    /\ UNCHANGED <<baseVars, checks_task, evalVars, parseVars, serviceVars>>

\* slip: MaxMessageTermination added, ending the conversation after one round
R_Speak_limited ==
    /\ team_state = "running"
    /\ Len(stream) < MaxMessages + 1
    /\ \E reply \in OpenReplies \cup FinalReplies :
        /\ stream' = Append(stream, [source  |-> NextSpeaker(Len(stream)),
                                     content |-> reply])
        /\ team_state' = IF \/ Contains(reply, TerminationText)
                             \/ Len(stream) >= Len(AgentNames)
                          THEN "stopped" ELSE "running"
    /\ UNCHANGED <<baseVars, checks_task, evalVars, parseVars, serviceVars>>

\* the next participant's TextMessage is yielded (the conversation has no
\* message limit; the model stops following it after MaxMessages replies)
R_Speak ==
    /\ team_state = "running"
    /\ Len(stream) < MaxMessages + 1
    /\ \E reply \in OpenReplies \cup FinalReplies :
        /\ stream' = Append(stream, [source  |-> NextSpeaker(Len(stream)),
                                     content |-> reply])
        /\ team_state' = IF Contains(reply, TerminationText)
                          THEN "stopped" ELSE "running"
    /\ UNCHANGED <<baseVars, checks_task, evalVars, parseVars, serviceVars>>

\* the stream is exhausted: return self._parse_agent_responses(...)
R_Return ==
    /\ team_state = "stopped"
    /\ results' = Append(results,
            parse_agent_responses(orders[1].order_id, stream, now))
    /\ team_state' = "returned"
    /\ UNCHANGED <<orders, now, globalVars, apiVars, threadVars, stream,
                   checks_task, evalVars, parseVars, serviceVars>>

\* system.process_order(order) has been called on a SupplyChainAgentSystem
TeamInit ==
    /\ orders \in {<<o>> : o \in TeamOrders}
    /\ results = <<>>
    /\ now = 0
    /\ _agent_system = NewSystem(FALSE, 1)
    /\ constructed = 1
    /\ returned = <<>>
    /\ resets = 0
    /\ requests = <<>>
    /\ calledAt = <<>>
    /\ responses = <<>>
    /\ ThreadInit
    /\ team_state = "called"
    /\ stream = <<>>
    /\ checks_task \in BOOLEAN
    /\ EvalIdle /\ ParseIdle /\ ServiceIdle

TeamNext == R_Task \/ R_Speak \/ R_Return \/ Tick

SpecTeam == TeamInit /\ [][TeamNext]_vars

\* the steps of R_Return: the only ones taking team_state from stopped on
ReturnStep == team_state = "stopped" /\ team_state' = "returned"

\* the event loop resumes process_order once the stream has ended
SpecTeamLive == SpecTeam /\ WF_team_state(ReturnStep)

-----------------------------------------------------------------------------
(* Properties of MockSupplyChainAgentSystem.process_order. *)

\* r.recommendations has an entry containing text
HasRecommendation(r, text) ==
    \E j \in DOMAIN r.recommendations : Contains(r.recommendations[j], text)

\* C1: for every integer quantity q, every priority and every product name
\* the mock process_order returns status CONFIRMED when q <= 500 and PENDING
\* when q > 500; no quantity (zero and negative included) is refused: the
\* call is enabled for every order and returns a result.
C1_StatusByQuantity ==
    /\ \A i \in Calls :
        /\ orders[i].quantity <= 500 => results[i].status = "CONFIRMED"
        /\ orders[i].quantity > 500 => results[i].status = "PENDING"
    /\ Len(results) < Len(orders) => ENABLED ProcessOrder

C1_Witness ==
    \E i, j \in Calls :
        /\ orders[i].quantity < 0 /\ results[i].status = "CONFIRMED"
        /\ orders[j].quantity > 500 /\ results[j].status = "PENDING"

\* C2: the unit price is 22.50 for q >= 100, 25.00 for 50 <= q < 100, 27.50
\* for 10 <= q < 50 and 30.00 for q < 10, whatever the priority.
C2_UnitPriceTiers ==
    \A i \in Calls :
        LET q == orders[i].quantity
            p == results[i].supplier.unit_price
        IN  /\ q >= 100 => p = 2250
            /\ (50 <= q /\ q < 100) => p = 2500
            /\ (10 <= q /\ q < 50) => p = 2750
            /\ q < 10 => p = 3000

C2_Witness ==
    \E i, j \in Calls :
        /\ orders[i].quantity = 10 /\ results[i].supplier.unit_price = 2750
        /\ orders[j].quantity = 100 /\ results[j].supplier.unit_price = 2250
        /\ orders[i].priority # orders[j].priority

\* C3: the unit price is monotonically non-increasing in quantity: of two
\* evaluated orders, the one with the larger quantity never has the larger
\* unit price.
C3_PriceMonotone ==
    \A i, j \in Calls :
        orders[i].quantity <= orders[j].quantity
            => results[i].supplier.unit_price >= results[j].supplier.unit_price

C3_Witness ==
    /\ Len(results) = 2
    /\ orders[1].quantity = 50 /\ orders[2].quantity = 100
    /\ results[1].supplier.unit_price > results[2].supplier.unit_price

\* C4: priority is matched exactly: "urgent" gives 75.00/overnight/1 day,
\* "high" gives 45.00/express/2 days, every other string gives
\* 25.00/standard/5 days; the supplier notes are "Standard supplier tier"
\* exactly for "low" and "Preferred supplier tier" otherwise; for every
\* quantity.
C4_ShippingByPriority ==
    \A i \in Calls :
        LET p == orders[i].priority
            r == results[i]
            ship == <<r.logistics.shipping_cost, r.logistics.shipping_method,
                      r.supplier.lead_time_days>>
        IN  /\ p = "urgent" => ship = <<7500, "overnight", 1>>
            /\ p = "high" => ship = <<4500, "express", 2>>
            /\ p \notin {"urgent", "high"} => ship = <<2500, "standard", 5>>
            /\ p = "low" => r.supplier.notes = "Standard supplier tier"
            /\ p # "low" => r.supplier.notes = "Preferred supplier tier"

C4_Witness ==
    \E i, j \in Calls :
        /\ orders[i].priority = "URGENT"
        /\ results[i].logistics.shipping_method = "standard"
        /\ orders[j].priority = "urgent"
        /\ results[j].logistics.shipping_method = "overnight"
        /\ orders[i].quantity # orders[j].quantity

\* C5: every result carries the inventory snapshot in_stock = 600,
\* reserved = 100, available = 500, reorder_point = 200, and
\* available = in_stock - reserved.
C5_InventorySnapshot ==
    \A i \in Calls :
        LET inv == results[i].inventory
        IN  /\ inv.in_stock = 600
            /\ inv.reserved = 100
            /\ inv.available = 500
            /\ inv.reorder_point = 200
            /\ inv.available = inv.in_stock - inv.reserved

C5_Witness ==
    \E i, j \in Calls :
        /\ results[i].status = "PENDING" /\ results[j].status = "CONFIRMED"
        /\ results[i].inventory.available = 500
        /\ results[j].inventory.available = 500

\* C6: a recommendation beginning "Insufficient stock" is present iff the
\* status is PENDING, and it names the available quantity 500.
C6_InsufficientIffPending ==
    \A i \in Calls :
        LET recs == results[i].recommendations
        IN  /\ (\E j \in DOMAIN recs : StartsWith(recs[j], "Insufficient stock"))
                <=> results[i].status = "PENDING"
            /\ \A j \in DOMAIN recs :
                StartsWith(recs[j], "Insufficient stock")
                    => Contains(recs[j], "quantity to 500 or")

C6_Witness ==
    \E i, j \in Calls :
        /\ results[i].status = "PENDING"
        /\ StartsWith(results[i].recommendations[1], "Insufficient stock")
        /\ orders[j].quantity = 500
        /\ ~HasRecommendation(results[j], "Insufficient stock")

\* C7: the "split shipments" recommendation is present iff the priority is
\* exactly "urgent" and the quantity is strictly greater than 100, whether
\* the order is CONFIRMED or PENDING.
C7_SplitShipmentsIff ==
    \A i \in Calls :
        HasRecommendation(results[i], "split shipments")
            <=> (orders[i].priority = "urgent" /\ orders[i].quantity > 100)

C7_Witness ==
    \E i, j \in Calls :
        /\ orders[i].priority = "urgent" /\ orders[i].quantity = 100
        /\ ~HasRecommendation(results[i], "split shipments")
        /\ orders[j].priority = "urgent" /\ results[j].status = "PENDING"
        /\ HasRecommendation(results[j], "split shipments")

\* C8: the "volume pricing" recommendation is present iff the result's unit
\* price is greater than 25.00, which is exactly for quantities below 50
\* (zero and negative quantities included).
C8_VolumePricingIff ==
    \A i \in Calls :
        /\ HasRecommendation(results[i], "volume pricing")
            <=> results[i].supplier.unit_price > 2500
        /\ HasRecommendation(results[i], "volume pricing")
            <=> orders[i].quantity < 50

C8_Witness ==
    \E i, j \in Calls :
        /\ orders[i].quantity < 0
        /\ HasRecommendation(results[i], "volume pricing")
        /\ orders[j].quantity = 50
        /\ ~HasRecommendation(results[j], "volume pricing")

\* the three recommendation texts, in the order the rules are evaluated
RuleOrder == <<"Insufficient stock", "split shipments", "volume pricing">>

\* C9: the recommendations are ordered "Insufficient stock", then "split
\* shipments", then "volume pricing"; each appears at most once and every
\* entry is one of the three.
C9_RecommendationOrder ==
    \A i \in Calls :
        LET recs == results[i].recommendations
        IN  \E rank \in [DOMAIN recs -> DOMAIN RuleOrder] :
                /\ \A j \in DOMAIN recs : Contains(recs[j], RuleOrder[rank[j]])
                /\ \A j, k \in DOMAIN recs : j < k => rank[j] < rank[k]
                /\ \A j \in DOMAIN recs :
                    recs[j] \in
                        {"Insufficient stock. Consider reducing order quantity to 500 or placing a backorder.",
                         "Large urgent orders may require split shipments from multiple warehouses.",
                         "Consider increasing order to 50 units for volume pricing ($25.00/unit)."}

C9_Witness ==
    \E i \in Calls :
        /\ Len(results[i].recommendations) = 2
        /\ StartsWith(results[i].recommendations[1], "Insufficient stock")
        /\ Contains(results[i].recommendations[2], "split shipments")

\* C10: for every product name, of any length, supplier_id starts with
\* "SUP-" followed by the first three characters of product_name uppercased.
C10_SupplierIdPrefix ==
    \A i \in Calls :
        StartsWith(results[i].supplier.supplier_id,
                   "SUP-" \o Upper(Prefix(orders[i].product_name, 3)))


\* the three characters of supplier_id after "SUP-"
SupplierSuffix(r) == SubSeq(r.supplier.supplier_id, 5, Len(r.supplier.supplier_id))

RECURSIVE Zeros(_)
Zeros(n) == IF n <= 0 THEN "" ELSE "0" \o Zeros(n - 1)

\* C11: the part of supplier_id after "SUP-" has width exactly 3: the first
\* three characters of product_name uppercased, padded with zeros to width 3
\* when the name is shorter (the empty name gives "SUP-000").
C11_SupplierIdWidth ==
    \A i \in Calls :
        LET name == orders[i].product_name
            up   == Upper(Prefix(name, 3))
            suf  == SupplierSuffix(results[i])
        IN  /\ StartsWith(results[i].supplier.supplier_id, "SUP-")
            /\ Len(suf) = 3
            /\ \/ suf = Zeros(3 - Len(up)) \o up
               \/ suf = up \o Zeros(3 - Len(up))
            /\ name = "" => results[i].supplier.supplier_id = "SUP-000"

C11_Witness ==
    \E i \in Calls :
        /\ Len(orders[i].product_name) = 2
        /\ Len(SupplierSuffix(results[i])) = 3
        /\ Contains(SupplierSuffix(results[i]), "0")

C13_CoordinatorSummary ==
    \A i \in Calls :
        LET o == orders[i]
            r == results[i]
            word   == CASE r.status = "CONFIRMED" -> "confirmed"
                        [] r.status = "PENDING" -> "pending"
                        [] OTHER -> "?"
            clause == CASE r.status = "CONFIRMED" ->
                            "Stock is available for immediate fulfillment."
                        [] r.status = "PENDING" ->
                            "Stock shortage requires supplier coordination."
                        [] OTHER -> "?"
            dest   == IF o.destination = "" THEN "default destination"
                      ELSE o.destination
        IN  r.coordinator_summary =
                "Order " \o o.order_id \o " for " \o ToString(o.quantity)
                \o "x " \o o.product_name \o " has been " \o word \o ". "
                \o clause \o " Shipping via " \o r.logistics.shipping_method
                \o " to " \o dest \o "."

C13_Witness ==
    \E i, j \in Calls :
        /\ results[i].status = "CONFIRMED" /\ orders[i].destination = ""
        /\ orders[i].quantity < 0
        /\ Contains(results[i].coordinator_summary, "to default destination.")
        /\ results[j].status = "PENDING" /\ orders[j].destination = "Boston"
        /\ Contains(results[j].coordinator_summary, "Stock shortage")

\* the fields of a result that decide the order
DecisionFields(r) ==
    <<r.status, r.supplier.unit_price, r.supplier.lead_time_days,
      r.logistics.shipping_cost, r.logistics.shipping_method,
      r.supplier.supplier_id, r.recommendations>>

\* C14: two evaluations with identical (quantity, priority, product_name),
\* made at any times and in any position of the run, yield identical status,
\* unit_price, lead_time_days, shipping_cost, shipping_method, supplier_id
\* and recommendations.
C14_Deterministic ==
    \A i, j \in Calls :
        (/\ orders[i].quantity = orders[j].quantity
         /\ orders[i].priority = orders[j].priority
         /\ orders[i].product_name = orders[j].product_name)
            => DecisionFields(results[i]) = DecisionFields(results[j])

C14_Witness ==
    /\ Len(results) = 2
    /\ orders[1].quantity = orders[2].quantity
    /\ orders[1].priority = orders[2].priority
    /\ orders[1].product_name = orders[2].product_name
    /\ orders[1].order_id # orders[2].order_id
    /\ results[1].timestamp # results[2].timestamp
    /\ DecisionFields(results[1]) = DecisionFields(results[2])

\* C19: in every result unit_price > 0, shipping_cost > 0,
\* lead_time_days > 0, in_stock >= reserved and available >= 0.
C19_WellFormedAmounts ==
    \A i \in Calls :
        LET r == results[i]
        IN  /\ r.supplier.unit_price > 0
            /\ r.logistics.shipping_cost > 0
            /\ r.supplier.lead_time_days > 0
            /\ r.inventory.in_stock >= r.inventory.reserved
            /\ r.inventory.available >= 0

C19_Witness ==
    \E i \in Calls :
        /\ orders[i].quantity = 0 /\ orders[i].priority = "low"
        /\ results[i].logistics.shipping_cost > 0
        /\ results[i].supplier.unit_price > 0


-----------------------------------------------------------------------------
(* Properties of get_agent_system. *)

\* C16: when several callers invoke get_agent_system concurrently while no
\* instance exists yet, only one instance is ever constructed and every
\* caller receives that same instance.
C16_SingleInitialization ==
    /\ constructed <= 1
    /\ \A i, j \in DOMAIN returned : returned[i].system = returned[j].system


\* the first call of its epoch (since the start or the last reset)
FirstOfEpoch(i) ==
    \A k \in 1..(i - 1) : returned[k].epoch # returned[i].epoch

\* C15: as long as the global is not reset, every call of get_agent_system
\* returns the same instance; the first call creates it with the kind its
\* use_mock selects, and later calls return it whatever their use_mock.
C15_CachedInstance ==
    /\ \A i, j \in DOMAIN returned :
        returned[i].epoch = returned[j].epoch
            => returned[i].system = returned[j].system
    /\ \A i \in DOMAIN returned :
        FirstOfEpoch(i)
            => returned[i].system.kind =
                    (IF returned[i].use_mock THEN "mock" ELSE "real")

C15_Witness ==
    \E i, j \in DOMAIN returned :
        /\ i < j /\ FirstOfEpoch(i)
        /\ returned[i].epoch = returned[j].epoch
        /\ ~returned[i].use_mock /\ returned[j].use_mock
        /\ returned[j].system.kind = "real"
        /\ returned[j].direct

-----------------------------------------------------------------------------
(* Properties of process_supply_chain_order. *)

ApiCalls == DOMAIN responses

\* the part of order_data that process_supply_chain_order reads
ReadPart(order_data) ==
    [k \in DOMAIN order_data \cap OrderKeys |-> order_data[k]]

\* the agent system that evaluated the i-th process_supply_chain_order call
EvaluatorOf(i) == SelectSeq(returned, LAMBDA e : ~e.direct)[i].system

TwoDigits(n) == IF n < 10 THEN "0" \o ToString(n) ELSE ToString(n)

\* C17: the order is built from the request with the defaults order_id
\* "ORD-" + UTC yyyyMMddHHmmss, product_name "Unknown Product", quantity 1,
\* priority "normal", destination "", required_date unset, notes ""; a
\* supplied order_id is returned unchanged; keys other than the seven have
\* no effect on the order built nor on the result.
C17_OrderDefaults ==
    /\ \A i \in ApiCalls :
        LET d == requests[i]
            o == orders[i]
            Has(k) == k \in DOMAIN d
        IN  /\ DOMAIN o = OrderKeys
            /\ o.order_id = IF Has("order_id") THEN d["order_id"]
                            ELSE "ORD-202501010000" \o TwoDigits(calledAt[i])
            /\ o.product_name = IF Has("product_name") THEN d["product_name"]
                                ELSE "Unknown Product"
            /\ o.quantity = IF Has("quantity") THEN d["quantity"] ELSE 1
            /\ o.priority = IF Has("priority") THEN d["priority"] ELSE "normal"
            /\ o.destination = IF Has("destination") THEN d["destination"]
                               ELSE ""
            /\ o.required_date = IF Has("required_date") THEN d["required_date"]
                                 ELSE None
            /\ o.notes = IF Has("notes") THEN d["notes"] ELSE ""
            /\ responses[i].order_id = o.order_id
    /\ \A i, j \in ApiCalls :
        (ReadPart(requests[i]) = ReadPart(requests[j])
            /\ calledAt[i] = calledAt[j])
            => /\ orders[i] = orders[j]
               /\ (EvaluatorOf(i).kind = "mock" /\ EvaluatorOf(j).kind = "mock")
                    => responses[i] = responses[j]

C17_Witness ==
    /\ Len(responses) = 2
    /\ DOMAIN requests[1] = {"color"} /\ DOMAIN requests[2] = {}
    /\ calledAt[1] = calledAt[2]
    /\ orders[1].quantity = 1 /\ orders[1].priority = "normal"
    /\ responses[1] = responses[2]
    /\ responses[1].status = "CONFIRMED"

\* C18: two calls that both omit order_id and read the clock at least one
\* second apart receive distinct generated order ids, each starting "ORD-".
C18_GeneratedIdsDistinct ==
    \A i, j \in ApiCalls :
        (/\ "order_id" \notin DOMAIN requests[i]
         /\ "order_id" \notin DOMAIN requests[j]
         /\ calledAt[i] # calledAt[j])
            => /\ responses[i].order_id # responses[j].order_id
               /\ StartsWith(responses[i].order_id, "ORD-")
               /\ StartsWith(responses[j].order_id, "ORD-")

C18_Witness ==
    /\ Len(responses) = 2
    /\ "order_id" \notin DOMAIN requests[1]
    /\ "order_id" \notin DOMAIN requests[2]
    /\ calledAt[2] >= calledAt[1] + 1
    /\ responses[1].order_id # responses[2].order_id

\* C20: whatever calls of get_agent_system and process_supply_chain_order
\* came before, process_supply_chain_order returns a status that is
\* CONFIRMED or PENDING, computed by the rule-based mock evaluator
\* (CONFIRMED exactly when the quantity is at most 500).
C20_StatusFromMock ==
    \A i \in ApiCalls :
        /\ responses[i].status \in {"CONFIRMED", "PENDING"}
        /\ responses[i].status = "CONFIRMED" <=> orders[i].quantity <= 500
        /\ EvaluatorOf(i).kind = "mock"

\* C26: every result of the mock evaluator carries at most two
\* recommendations, and the "Insufficient stock" recommendation never
\* appears together with the "volume pricing" recommendation.
C26_AtMostTwoRecommendations ==
    \A i \in Calls :
        /\ Len(results[i].recommendations) <= 2
        /\ ~(/\ HasRecommendation(results[i], InsufficientStockText)
              /\ HasRecommendation(results[i], VolumePricingText))

\* an urgent order above the available stock got two recommendations, and
\* an order below 10 units got the volume pricing recommendation alone
C26_Witness ==
    /\ Len(results) = 2
    /\ orders[1].quantity > 500 /\ orders[1].priority = "urgent"
    /\ Len(results[1].recommendations) = 2
    /\ orders[2].quantity < 50
    /\ results[2].recommendations = <<VolumePricingText>>

-----------------------------------------------------------------------------
(* Generated order ids within one second. *)

\* C27: two process_supply_chain_order calls that both omit order_id and
\* read the UTC clock within the same second are given the same generated
\* order_id.
C27_SameSecondIdsCollide ==
    \A i, j \in ApiCalls :
        (/\ "order_id" \notin DOMAIN requests[i]
         /\ "order_id" \notin DOMAIN requests[j]
         /\ calledAt[i] = calledAt[j])
            => /\ orders[i].order_id = orders[j].order_id
               /\ responses[i].order_id = responses[j].order_id

\* two calls without order_id were made within one second, the second of
\* them with another dictionary, and both got the id of that second
C27_Witness ==
    /\ Len(responses) = 2
    /\ "order_id" \notin DOMAIN requests[1]
    /\ "order_id" \notin DOMAIN requests[2]
    /\ requests[1] # requests[2]
    /\ calledAt[1] = calledAt[2]
    /\ responses[1].order_id = GeneratedOrderId(calledAt[1])
    /\ responses[2].order_id = responses[1].order_id

-----------------------------------------------------------------------------
(* Concurrent evaluations. *)

Finished == {t \in Threads : epc[t] = "done"}

C21_AsIfAlone ==
    \A t \in Finished :
        /\ \E at \in 0..now : ResultOf(t) = MockProcessOrder(orders[t], at)
        /\ \A u \in Finished \ {t} :
                /\ locals[u].result # locals[t].result
                /\ heap[locals[u].result].value.recommendations
                        # heap[locals[t].result].value.recommendations

C21_Frame ==
    /\ orders' = orders
    /\ _agent_system' = _agent_system
    /\ constructed' = constructed

\* C21: in every interleaving of concurrent mock evaluations, no step of
\* process_order changes an input order or the global evaluator instance,
\* every finished call has a result object and a recommendations list of
\* its own, and its result equals what MockProcessOrder returns for its
\* order alone.
C21_StatelessEvaluator == [](C21_AsIfAlone) /\ [][C21_Frame]_vars

\* all the calls finished after running interleaved: the second caller
\* made its list before the first built its result, and both lists were
\* appended to
C21_Witness ==
    /\ Finished = Threads
    /\ locals[1].recommendations < locals[2].recommendations
    /\ locals[2].recommendations < locals[1].result
    /\ \A t \in {1, 2} : ResultOf(t).recommendations # <<>>
    /\ ResultOf(1) # ResultOf(2)

-----------------------------------------------------------------------------
(* Properties of SupplyChainAgentSystem._parse_agent_responses. *)

ParseCalls == DOMAIN parsed

Raised(i) == "raised" \in DOMAIN parsed[i]

LacksSource(msg) == "source" \notin DOMAIN msg

FromCoordinator(msg) ==
    ~LacksSource(msg) /\ msg["source"] = "CoordinatorAgent"

\* the CoordinatorAgent messages of a list, in order
CoordinatorMessages(messages) == SelectSeq(messages, FromCoordinator)

\* every record has its source and no coordinator content is null
TextOnly(messages) ==
    \A k \in DOMAIN messages :
        /\ ~LacksSource(messages[k])
        /\ FromCoordinator(messages[k]) => messages[k]["content"] # None

\* the list with every null content replaced by the empty string
NullsAsEmpty(messages) ==
    [k \in DOMAIN messages |->
        IF "content" \in DOMAIN messages[k] /\ messages[k]["content"] = None
        THEN [messages[k] EXCEPT !["content"] = ""]
        ELSE messages[k]]

\* C22: whenever a message record of the list lacks the "source" key, the
\* call raises KeyError and returns no result, whatever else the list holds.
C22_MissingSourceKeyError ==
    \A i \in ParseCalls :
        (\E k \in DOMAIN inbox[i] : LacksSource(inbox[i][k]))
            => parsed[i] = [raised |-> "KeyError"]

\* C23: a call whose records all have their source returns, without
\* raising, the result it returns when every null content is replaced by
\* the empty string, whichever agent sent the null content.
C23_NullContentTolerated ==
    \A i \in ParseCalls :
        (\A k \in DOMAIN inbox[i] : ~LacksSource(inbox[i][k]))
            => /\ ~Raised(i)
               /\ \E at \in 0..now :
                    parsed[i] = parse_agent_responses(
                                    "ORD-001", NullsAsEmpty(inbox[i]), at)

\* the status the claim gives for a single coordinator content
StatusOfContent(c) ==
    IF Contains(Lower(c), "confirmed") THEN "CONFIRMED"
    ELSE IF Contains(Lower(c), "rejected") THEN "REJECTED"
    ELSE "PENDING"

\* C24: for lists of records with text coordinator contents, the status is
\* PENDING without a CoordinatorAgent message; with a single one it is
\* CONFIRMED if its content contains "confirmed" in any letter case,
\* REJECTED if it contains "rejected" in any letter case and not
\* "confirmed", PENDING otherwise; and the messages of other agents,
\* whatever their content, never change the status.
C24_StatusFromCoordinator ==
    \A i \in ParseCalls :
        TextOnly(inbox[i]) =>
            LET cm == CoordinatorMessages(inbox[i])
            IN  /\ ~Raised(i)
                /\ Len(cm) = 0 => parsed[i].status = "PENDING"
                /\ Len(cm) = 1 =>
                        parsed[i].status = StatusOfContent(cm[1]["content"])
                /\ parsed[i].status
                        = parse_agent_responses("ORD-001", cm, 0).status

\* a null supplier content and a rejection by the supplier came before a
\* single mixed-case confirmation by the coordinator
C24_Witness ==
    /\ Len(parsed) = 1
    /\ inbox[1] =
            <<[source |-> "SupplierAgent", content |-> None],
              [source |-> "SupplierAgent", content |-> "order rejected"],
              [source |-> "CoordinatorAgent", content |-> "Order is CoNfIrMeD"]>>
    /\ parsed[1].status = "CONFIRMED"

\* C25: with several CoordinatorAgent messages of text content, the
\* returned coordinator_summary and status are those the last
\* CoordinatorAgent message alone determines.
C25_LastCoordinatorMessage ==
    \A i \in ParseCalls :
        LET cm == CoordinatorMessages(inbox[i])
        IN  (TextOnly(inbox[i]) /\ Len(cm) >= 2) =>
                LET alone == parse_agent_responses(
                                "ORD-001", <<cm[Len(cm)]>>, 0)
                IN  /\ ~Raised(i)
                    /\ parsed[i].coordinator_summary
                            = alone.coordinator_summary
                    /\ parsed[i].status = alone.status

-----------------------------------------------------------------------------
(* Properties of AutoGenManager. *)

ServiceCalls == DOMAIN served

\* C28: with an API key configured, the session_id each call returns is a
\* key of the sessions map; a call with a known session_id leaves the map
\* as it was; a call with an unknown or missing session_id adds exactly
\* one new key (the given id, when one was given) and keeps every other
\* entry; and the map does not change between calls.
C28_SessionsOnlyGrow ==
    config_list # <<>> =>
        \A i \in ServiceCalls :
            LET e == served[i]
            IN  /\ ~e.raised => e.ret.session_id \in DOMAIN e.after
                /\ e.given \in DOMAIN e.before => e.after = e.before
                /\ e.given \notin DOMAIN e.before =>
                        \E k \in DOMAIN e.after \ DOMAIN e.before :
                            /\ DOMAIN e.after = DOMAIN e.before \cup {k}
                            /\ Truthy(e.given) => k = e.given
                            /\ \A j \in DOMAIN e.before :
                                    e.after[j] = e.before[j]
                /\ e.before = IF i = 1 THEN EmptyDict ELSE served[i - 1].after
                /\ i = Len(served) => e.after = sessions

\* C29: without an API key configured, every chat and analyze_supply_chain
\* call returns the "not configured" response with no agents involved (the
\* session_id being the given id, or "demo" when none was given, for chat
\* and "analysis_demo" for analyze), starts no conversation and leaves the
\* sessions map empty.
C29_NotConfigured ==
    api_key \in {None, ""} =>
        /\ sessions = EmptyDict
        /\ chat_managers = <<>>
        /\ \A i \in ServiceCalls :
            LET e == served[i]
            IN  /\ ~e.raised /\ ~e.initiated
                /\ e.before = EmptyDict /\ e.after = EmptyDict
                /\ e.ret.response = NotConfiguredText
                /\ e.ret.agents_involved = {}
                /\ e.op = "chat" =>
                        e.ret.session_id
                            = IF Truthy(e.given) THEN e.given ELSE "demo"
                /\ e.op = "analyze" => e.ret.session_id = "analysis_demo"

\* with an empty key in the environment, a chat call without session_id
\* and an analyze call have both been answered
C29_Witness ==
    /\ api_key = ""
    /\ Len(served) = 2
    /\ served[1].op = "chat" /\ served[1].given = None
    /\ served[1].ret.session_id = "demo"
    /\ served[2].op = "analyze"
    /\ served[2].ret.session_id = "analysis_demo"

-----------------------------------------------------------------------------
(* Termination of the real process_order. *)

\* the messages the termination condition has been applied to
Examined == {k \in DOMAIN stream : k > 1 \/ checks_task}

Mentioned ==
    \E k \in Examined : Contains(stream[k].content, TerminationText)

HasReturned == team_state = "returned"

\* the agents speak in the order Supplier, Inventory, Logistics,
\* Coordinator, again and again, after the task
RoundRobin ==
    \A k \in DOMAIN stream :
        stream[k].source
            = IF k = 1 THEN "user"
              ELSE <<"SupplierAgent", "InventoryAgent", "LogisticsAgent",
                     "CoordinatorAgent">>[((k - 2) % 4) + 1]

\* the call returns only from an ended conversation, and a conversation
\* ends only at a message mentioning the text and takes no message after it
OnlyByMention ==
    /\ HasReturned <=> results # <<>>
    /\ team_state \in {"stopped", "returned"} =>
            /\ Mentioned
            /\ \A k \in Examined :
                    Contains(stream[k].content, TerminationText)
                        => k = Len(stream)
    /\ team_state = "running" => ~Mentioned

====
